---- MODULE Spec2Model ----
(***************************************************************************)
(* Model of seq66::setmaster (libseq66/src/play/setmaster.cpp): the        *)
(* ordered map of screensets, the stored play-screen number and the cached *)
(* play-screen pointer, driven by reset, add_set, set_playscreen,          *)
(* swap_sets and set_function.                                             *)
(***************************************************************************)
EXTENDS Integers, FiniteSets, Sequences, TLC

(* ---------------------------------------------------------------------- *)
(* Program constants and bounds                                            *)
(* ---------------------------------------------------------------------- *)

\* screenset::limit(): the number of the dummy screenset.
LIMIT == 2048

\* seq::unassigned(): the value m_playscreen has before the first reset.
unassigned == -1

\* The fixed grid of sets: 4 rows by 8 columns.
c_rows == 4

c_columns == 8

\* How far outside the grid the rows and columns passed to calculate_set go.
Margin == 1

\* Largest in-range set number the callers pass.
MaxSet == 1

\* Largest number of screensets the container is grown to.
MaxSets == 3

\* Arguments the callers pass: below the range, in range, and the limit.
Numbers == {-1} \cup (0 .. MaxSet) \cup {LIMIT}

\* Values a set-handler writes into the screenset it visits.
Contents == {0, 1}

VARIABLES
    m_container,            \* std::map<number, screenset>: key -> screenset
    m_playscreen,           \* stored play-screen number
    m_playscreen_pointer,   \* address of a map node, nullptr or dangling
    call,                   \* name of the last public call
    result,                 \* the value the last call returned
    arg_row,                \* the row handed to calculate_set
    arg_column,             \* the column handed to calculate_set
    calculated              \* the number calculate_set returned

vars == <<m_container, m_playscreen, m_playscreen_pointer, call, result,
          arg_row, arg_column, calculated>>

(* ---------------------------------------------------------------------- *)
(* screenset (the part of its interface setmaster uses)                    *)
(* ---------------------------------------------------------------------- *)

\* screenset::screenset(setno, rows, columns): empty and not the play-screen.
screenset(setno) ==
    [set_number |-> setno, is_playscreen |-> FALSE, content |-> 0]

\* screenset::change_set_number(n)
change_set_number(s, n) == [s EXCEPT !.set_number = n]

\* screenset::is_playscreen(flag)
is_playscreen(s, flag) == [s EXCEPT !.is_playscreen = flag]

\* screenset::usable(): every screenset but the dummy one.
usable(s) == s.set_number # LIMIT

(* ---------------------------------------------------------------------- *)
(* Container helpers                                                       *)
(* ---------------------------------------------------------------------- *)

nullptr == <<>>

\* container::end(); an iterator is the set holding the key it points at.
end == {}

\* The value of a pointer whose node has been freed.
dangling == <<"freed">>

\* &m_container.at(key): the address of the node stored under key.
AddressOf(key) == <<key>>

\* m_container.find(key)
find(c, key) == IF key \in DOMAIN c THEN {key} ELSE end

\* The key an iterator (not end) points at.
KeyOf(it) == CHOOSE k \in it : TRUE

\* The keys in iteration (ascending) order.
RECURSIVE KeysInOrder(_)
KeysInOrder(ks) ==
    IF ks = {} THEN <<>>
    ELSE LET lo == CHOOSE k \in ks : \A j \in ks : k <= j
         IN  <<lo>> \o KeysInOrder(ks \ {lo})

\* The state of a setmaster object as one record.
Self == [container |-> m_container, playscreen |-> m_playscreen,
         pointer |-> m_playscreen_pointer]

(* ---------------------------------------------------------------------- *)
(* setmaster member functions, on a state record                           *)
(* ---------------------------------------------------------------------- *)

\* m_rows and m_columns, set once by the constructor.
m_rows == c_rows

m_columns == c_columns

\* calculate_set that takes the grid as row-major.
calculate_set_row_major(row, column) ==
    IF row < 0 \/ row >= m_rows \/ column < 0 \/ column >= m_columns
    THEN 0
    ELSE m_columns * row + column

\* setmaster::calculate_set
calculate_set(row, column) ==
    IF row < 0 \/ row >= m_rows \/ column < 0 \/ column >= m_columns
    THEN 0
    ELSE m_rows * column + row

\* setmaster::clear(): empties the map; every node is freed, so a pointer to
\* one of them is left dangling.
clear(st) ==
    [st EXCEPT !.container = [k \in {} |-> screenset(0)],
               !.pointer = IF st.pointer = nullptr THEN nullptr ELSE dangling]

\* add_set that assigns through operator[] and so replaces an existing set.
add_set_overwrite(st, setno) ==
    LET c == st.container
        inserted == [k \in DOMAIN c \cup {setno} |->
                        IF k = setno THEN screenset(setno) ELSE c[k]]
    IN  [st |-> [st EXCEPT !.container = inserted], it |-> {setno}]

\* setmaster::add_set: std::map::insert keeps an existing element.
add_set(st, setno) ==
    LET c == st.container
        inserted == [k \in DOMAIN c \cup {setno} |->
                        IF k \in DOMAIN c THEN c[k] ELSE screenset(setno)]
    IN  [st |-> [st EXCEPT !.container = inserted], it |-> {setno}]

\* screenset_index that takes its argument for a key.
screenset_index_by_key(c, setno) ==
    IF setno \in DOMAIN c
    THEN Cardinality({k \in DOMAIN c : k < setno})
    ELSE unassigned

\* The loop of screenset_index: keys is what is left to iterate, index the
\* number of nodes passed.
RECURSIVE screenset_index_loop(_, _, _, _)
screenset_index_loop(c, keys, setno, index) ==
    IF keys = <<>> THEN unassigned
    ELSE IF c[Head(keys)].set_number = setno THEN index
    ELSE screenset_index_loop(c, Tail(keys), setno, index + 1)

\* setmaster::screenset_index
screenset_index(c, setno) ==
    screenset_index_loop(c, KeysInOrder(DOMAIN c), setno, 0)

\* setmaster::find_by_value: first node, in key order, with that set_number.
find_by_value(c, setno) ==
    LET matches == {k \in DOMAIN c : c[k].set_number = setno}
    IN  IF matches = {} THEN end
        ELSE {CHOOSE k \in matches : \A j \in matches : k <= j}

\* swap_sets whose exchange overwrites the first set before saving it.
swap_sets_copy(st, set0, set1) ==
    LET c == st.container
        item0 == find_by_value(c, set0)
        item1 == find_by_value(c, set1)
        ok == item0 # end /\ item1 # end
    IN  IF ok
        THEN LET k0 == KeyOf(item0)
                 k1 == KeyOf(item1)
                 copied == [c EXCEPT ![k0] = c[k1]]
                 c1 == [copied EXCEPT
                           ![k0] = change_set_number(copied[k0], set1)]
                 c2 == [c1 EXCEPT
                           ![k1] = change_set_number(c1[k1], set0)]
             IN  [st |-> [st EXCEPT !.container = c2], ret |-> TRUE]
        ELSE [st |-> st, ret |-> FALSE]

\* swap_sets that renumbers the first set before it knows the second exists.
swap_sets_partial(st, set0, set1) ==
    LET c == st.container
        item0 == find_by_value(c, set0)
        item1 == find_by_value(c, set1)
        ok == item0 # end /\ item1 # end
        c0 == IF item0 # end
              THEN [c EXCEPT ![KeyOf(item0)] =
                       change_set_number(c[KeyOf(item0)], set1)]
              ELSE c
    IN  IF ok
        THEN LET k0 == KeyOf(item0)
                 k1 == KeyOf(item1)
                 swapped == [c EXCEPT ![k0] = c[k1], ![k1] = c[k0]]
                 c1 == [swapped EXCEPT
                           ![k0] = change_set_number(swapped[k0], set1)]
                 c2 == [c1 EXCEPT
                           ![k1] = change_set_number(c1[k1], set0)]
             IN  [st |-> [st EXCEPT !.container = c2], ret |-> TRUE]
        ELSE [st |-> [st EXCEPT !.container = c0], ret |-> FALSE]

\* swap_sets that hands each set its old number back.
swap_sets_misnumbered(st, set0, set1) ==
    LET c == st.container
        item0 == find_by_value(c, set0)
        item1 == find_by_value(c, set1)
        ok == item0 # end /\ item1 # end
    IN  IF ok
        THEN LET k0 == KeyOf(item0)
                 k1 == KeyOf(item1)
                 swapped == [c EXCEPT ![k0] = c[k1], ![k1] = c[k0]]
                 c1 == [swapped EXCEPT
                           ![k0] = change_set_number(swapped[k0], set0)]
                 c2 == [c1 EXCEPT
                           ![k1] = change_set_number(c1[k1], set1)]
             IN  [st |-> [st EXCEPT !.container = c2], ret |-> TRUE]
        ELSE [st |-> st, ret |-> FALSE]

\* swap_sets that gives both sets the second number.
swap_sets_same_number(st, set0, set1) ==
    LET c == st.container
        item0 == find_by_value(c, set0)
        item1 == find_by_value(c, set1)
        ok == item0 # end /\ item1 # end
    IN  IF ok
        THEN LET k0 == KeyOf(item0)
                 k1 == KeyOf(item1)
                 swapped == [c EXCEPT ![k0] = c[k1], ![k1] = c[k0]]
                 c1 == [swapped EXCEPT
                           ![k0] = change_set_number(swapped[k0], set1)]
                 c2 == [c1 EXCEPT
                           ![k1] = change_set_number(c1[k1], set1)]
             IN  [st |-> [st EXCEPT !.container = c2], ret |-> TRUE]
        ELSE [st |-> st, ret |-> FALSE]

\* swap_sets that moves the first set onto the second's node and erases its
\* own.
swap_sets_move(st, set0, set1) ==
    LET c == st.container
        item0 == find_by_value(c, set0)
        item1 == find_by_value(c, set1)
        ok == item0 # end /\ item1 # end
    IN  IF ok
        THEN LET k0 == KeyOf(item0)
                 k1 == KeyOf(item1)
                 c2 == [k \in (DOMAIN c \ {k0}) \cup {k1} |->
                          IF k = k1 THEN change_set_number(c[k0], set1)
                          ELSE c[k]]
             IN  [st |-> [st EXCEPT !.container = c2], ret |-> TRUE]
        ELSE [st |-> st, ret |-> FALSE]

\* setmaster::swap_sets
swap_sets(st, set0, set1) ==
    LET c == st.container
        item0 == find_by_value(c, set0)
        item1 == find_by_value(c, set1)
        ok == item0 # end /\ item1 # end
    IN  IF ok
        THEN LET k0 == KeyOf(item0)
                 k1 == KeyOf(item1)
                 swapped == [c EXCEPT ![k0] = c[k1], ![k1] = c[k0]]
                 c1 == [swapped EXCEPT
                           ![k0] = change_set_number(swapped[k0], set1)]
                 c2 == [c1 EXCEPT
                           ![k1] = change_set_number(c1[k1], set0)]
             IN  [st |-> [st EXCEPT !.container = c2], ret |-> TRUE]
        ELSE [st |-> st, ret |-> FALSE]

\* Range check that lets the limit itself through.
valid_set_inclusive(setno) == setno >= 0 /\ setno <= LIMIT

\* set_playscreen's range check on its argument.
valid_set(setno) == setno >= 0 /\ setno < LIMIT

\* set_playscreen, the set exists: unmark the set stored under the old
\* play-screen number (if there is one), store the new number, mark the set
\* stored under it.
mark_playscreen(st, setno) ==
    LET oldset == find(st.container, st.playscreen)
        c1 == IF oldset # end
              THEN [st.container EXCEPT ![KeyOf(oldset)] =
                       is_playscreen(st.container[KeyOf(oldset)], FALSE)]
              ELSE st.container
        c2 == [c1 EXCEPT ![setno] = is_playscreen(c1[setno], TRUE)]
    IN  [st EXCEPT !.container = c2, !.playscreen = setno]

\* A set_playscreen that leaves the cached pointer as it was.
cache_pointer_stale(st) == st

\* set_playscreen's last statement: recompute the cached pointer.
cache_pointer(st) == [st EXCEPT !.pointer = AddressOf(st.playscreen)]

\* set_playscreen whose creating branch forgets "result = true".
RECURSIVE set_playscreen_result_unset(_, _)
set_playscreen_result_unset(st, setno) ==
    IF ~valid_set(setno)
    THEN [st |-> st, ret |-> FALSE, calls |-> 1, fallback |-> FALSE]
    ELSE
      LET sset == find(st.container, setno)
          found ==
            [st |-> mark_playscreen(st, setno),
             ret |-> TRUE, calls |-> 1, fallback |-> FALSE]
          created ==
            LET added == add_set(st, setno)
                setp == added.it
            IN  IF setp # end
                THEN LET inner == set_playscreen_result_unset(added.st, setno)
                         c3 == [inner.st.container EXCEPT ![KeyOf(setp)] =
                                  is_playscreen(inner.st.container[KeyOf(setp)], TRUE)]
                     IN  [st |-> [inner.st EXCEPT !.container = c3],
                          ret |-> FALSE, calls |-> 1 + inner.calls,
                          fallback |-> inner.fallback]
                ELSE [st |-> added.st, ret |-> FALSE, calls |-> 1,
                      fallback |-> FALSE]
          body == IF sset # end THEN found ELSE created
          fell == IF ~body.ret
                  THEN [body EXCEPT !.st.playscreen = 0, !.fallback = TRUE]
                  ELSE body
      IN  [fell EXCEPT !.st = cache_pointer(fell.st)]

\* setmaster::set_playscreen.  calls counts the (recursive) invocations and
\* fallback records whether "m_playscreen = 0" was executed.
RECURSIVE set_playscreen(_, _)
set_playscreen(st, setno) ==
    IF ~valid_set(setno)
    THEN [st |-> st, ret |-> FALSE, calls |-> 1, fallback |-> FALSE]
    ELSE
      LET sset == find(st.container, setno)
          found ==
            [st |-> mark_playscreen(st, setno),
             ret |-> TRUE, calls |-> 1, fallback |-> FALSE]
          created ==
            LET added == add_set(st, setno)
                setp == added.it
            IN  IF setp # end
                THEN LET inner == set_playscreen(added.st, setno)
                         c3 == [inner.st.container EXCEPT ![KeyOf(setp)] =
                                  is_playscreen(inner.st.container[KeyOf(setp)], TRUE)]
                     IN  [st |-> [inner.st EXCEPT !.container = c3],
                          ret |-> TRUE, calls |-> 1 + inner.calls,
                          fallback |-> inner.fallback]
                ELSE [st |-> added.st, ret |-> FALSE, calls |-> 1,
                      fallback |-> FALSE]
          body == IF sset # end THEN found ELSE created
          fell == IF ~body.ret
                  THEN [body EXCEPT !.st.playscreen = 0, !.fallback = TRUE]
                  ELSE body
      IN  [fell EXCEPT !.st = cache_pointer(fell.st)]

\* reset that forgets to make set 0 the play-screen.
reset_unmarked(st) ==
    LET cleared == clear(st)
        first == add_set(cleared, 0)
    IN  add_set(first.st, LIMIT).st

\* reset that forgets to create the dummy set.
reset_nodummy(st) ==
    LET cleared == clear(st)
        first == add_set(cleared, 0)
    IN  IF first.it # end
        THEN set_playscreen(first.st, 0).st
        ELSE first.st

\* setmaster::reset
reset(st) ==
    LET cleared == clear(st)
        first == add_set(cleared, 0)
        played == IF first.it # end
                  THEN set_playscreen(first.st, 0).st
                  ELSE first.st
    IN  add_set(played, LIMIT).st

\* The loop without its break: it goes on after a failure.
RECURSIVE set_function_loop_nobreak(_, _, _, _, _)
set_function_loop_nobreak(acc, keys, indexed, failAt, writes) ==
    IF keys = <<>> THEN acc
    ELSE LET k == Head(keys)
             s == acc.c[k]
             calls == Len(acc.visited) + 1
         IN  IF usable(s)
             THEN LET ok == (calls # failAt)
                      visit == IF indexed
                               THEN [key |-> k, index |-> acc.index]
                               ELSE [key |-> k]
                  IN  set_function_loop_nobreak(
                          [c |-> [acc.c EXCEPT ![k].content = writes],
                           index |-> IF indexed THEN acc.index + 1
                                     ELSE acc.index,
                           ret |-> ok, stop |-> ~ok,
                           visited |-> Append(acc.visited, visit)],
                          Tail(keys), indexed, failAt, writes)
             ELSE set_function_loop_nobreak(acc, Tail(keys), indexed, failAt, writes)

\* The loop with ++index outside the usable() test.
RECURSIVE set_function_loop_count_all(_, _, _, _, _)
set_function_loop_count_all(acc, keys, indexed, failAt, writes) ==
    IF keys = <<>> \/ acc.stop THEN acc
    ELSE LET k == Head(keys)
             s == acc.c[k]
             calls == Len(acc.visited) + 1
         IN  IF usable(s)
             THEN LET ok == (calls # failAt)
                      visit == IF indexed
                               THEN [key |-> k, index |-> acc.index]
                               ELSE [key |-> k]
                  IN  set_function_loop_count_all(
                          [c |-> [acc.c EXCEPT ![k].content = writes],
                           index |-> IF indexed THEN acc.index + 1
                                     ELSE acc.index,
                           ret |-> ok, stop |-> ~ok,
                           visited |-> Append(acc.visited, visit)],
                          Tail(keys), indexed, failAt, writes)
             ELSE set_function_loop_count_all(
                      [acc EXCEPT !.index = acc.index + 1],
                      Tail(keys), indexed, failAt, writes)

\* One pass of the loop the three set_function overloads share.  The callee
\* (screenset::set_function or screenset::slot_function, which run the
\* caller's handlers) writes "writes" into the screenset and reports failure
\* on its failAt-th invocation (never if failAt is 0).  indexed tells whether
\* the callee is handed index++.  acc is [c, index, ret, stop, visited];
\* visited lists the invocations made, keys is what is left to iterate.
RECURSIVE set_function_loop(_, _, _, _, _)
set_function_loop(acc, keys, indexed, failAt, writes) ==
    IF keys = <<>> \/ acc.stop THEN acc
    ELSE LET k == Head(keys)
             s == acc.c[k]
             calls == Len(acc.visited) + 1
         IN  IF usable(s)
             THEN LET ok == (calls # failAt)
                      visit == IF indexed
                               THEN [key |-> k, index |-> acc.index]
                               ELSE [key |-> k]
                  IN  set_function_loop(
                          [c |-> [acc.c EXCEPT ![k].content = writes],
                           index |-> IF indexed THEN acc.index + 1
                                     ELSE acc.index,
                           ret |-> ok, stop |-> ~ok,
                           visited |-> Append(acc.visited, visit)],
                          Tail(keys), indexed, failAt, writes)
             ELSE set_function_loop(acc, Tail(keys), indexed, failAt, writes)

\* The three loops start with result = false (and index = 0).
loop_start(st) ==
    [c |-> st.container, index |-> 0, ret |-> FALSE, stop |-> FALSE,
     visited |-> <<>>]

\* setmaster::set_function(sethandler)
set_function(st, failAt, writes) ==
    LET done == set_function_loop(loop_start(st),
                    KeysInOrder(DOMAIN st.container), TRUE, failAt, writes)
    IN  [st |-> [st EXCEPT !.container = done.c], ret |-> done.ret,
         visited |-> done.visited]

\* setmaster::set_function(sethandler, slothandler)
set_function_set_slot(st, failAt, writes) ==
    LET done == set_function_loop(loop_start(st),
                    KeysInOrder(DOMAIN st.container), FALSE, failAt, writes)
    IN  [st |-> [st EXCEPT !.container = done.c], ret |-> done.ret,
         visited |-> done.visited]

\* setmaster::set_function(slothandler)
set_function_slot(st, failAt, writes) ==
    LET done == set_function_loop(loop_start(st),
                    KeysInOrder(DOMAIN st.container), FALSE, failAt, writes)
    IN  [st |-> [st EXCEPT !.container = done.c], ret |-> done.ret,
         visited |-> done.visited]

(* ---------------------------------------------------------------------- *)
(* The state machine                                                       *)
(* ---------------------------------------------------------------------- *)

\* The container stays within the explored size.
Fits(st) == Cardinality(DOMAIN st.container) <= MaxSets

\* Assign the members; the calculate_set bookkeeping stays as it is.
Store(st) ==
    /\ m_container' = st.container
    /\ m_playscreen' = st.playscreen
    /\ m_playscreen_pointer' = st.pointer
    /\ UNCHANGED <<arg_row, arg_column, calculated>>

\* setmaster::setmaster(): the members' initial values, then reset().
Constructed ==
    LET made == reset([container |-> [k \in {} |-> screenset(0)],
                       playscreen |-> unassigned,
                       pointer |-> nullptr])
    IN  /\ m_container = made.container
        /\ m_playscreen = made.playscreen
        /\ m_playscreen_pointer = made.pointer
        /\ call = "setmaster"
        /\ result = TRUE

Init ==
    /\ Constructed
    /\ arg_row = 0
    /\ arg_column = 0
    /\ calculated = unassigned

DoReset ==
    /\ Store(reset(Self))
    /\ call' = "reset"
    /\ result' = TRUE

DoAddSet(setno) ==
    LET r == add_set(Self, setno)
    IN  /\ Fits(r.st)
        /\ Store(r.st)
        /\ call' = "add_set"
        /\ result' = (r.it # end)

DoSetPlayscreen(setno) ==
    LET r == set_playscreen(Self, setno)
    IN  /\ Fits(r.st)
        /\ Store(r.st)
        /\ call' = "set_playscreen"
        /\ result' = r.ret

DoSwapSets(set0, set1) ==
    LET r == swap_sets(Self, set0, set1)
    IN  /\ Store(r.st)
        /\ call' = "swap_sets"
        /\ result' = r.ret

DoSetFunction(failAt, writes) ==
    LET r == set_function(Self, failAt, writes)
    IN  /\ Store(r.st)
        /\ call' = "set_function"
        /\ result' = r.ret

DoSetFunctionSetSlot(failAt, writes) ==
    LET r == set_function_set_slot(Self, failAt, writes)
    IN  /\ Store(r.st)
        /\ call' = "set_function"
        /\ result' = r.ret

DoSetFunctionSlot(failAt, writes) ==
    LET r == set_function_slot(Self, failAt, writes)
    IN  /\ Store(r.st)
        /\ call' = "set_function"
        /\ result' = r.ret

CallReset == DoReset

CallAddSet == \E setno \in Numbers : DoAddSet(setno)

CallSetPlayscreen == \E setno \in Numbers : DoSetPlayscreen(setno)

CallSwapSets == \E set0 \in Numbers, set1 \in Numbers : DoSwapSets(set0, set1)

CallSetFunction ==
    \E failAt \in 0 .. (MaxSets - 1), writes \in Contents :
        DoSetFunction(failAt, writes)

CallSetFunctionSetSlot ==
    \E failAt \in 0 .. (MaxSets - 1), writes \in Contents :
        DoSetFunctionSetSlot(failAt, writes)

CallSetFunctionSlot ==
    \E failAt \in 0 .. (MaxSets - 1), writes \in Contents :
        DoSetFunctionSlot(failAt, writes)

Next ==
    \/ CallReset
    \/ CallAddSet
    \/ CallSetPlayscreen
    \/ CallSwapSets
    \/ CallSetFunction
    \/ CallSetFunctionSetSlot
    \/ CallSetFunctionSlot

Spec == Init /\ [][Next]_vars

(* ---------------------------------------------------------------------- *)
(* The same calls with the record of the last call switched off            *)
(* ---------------------------------------------------------------------- *)

Unlogged == UNCHANGED <<call, result>>

Reset ==
    /\ Store(reset(Self))
    /\ Unlogged

AddSet(setno) ==
    LET r == add_set(Self, setno)
    IN  /\ Fits(r.st)
        /\ Store(r.st)
        /\ Unlogged

SetPlayscreen(setno) ==
    LET r == set_playscreen(Self, setno)
    IN  /\ Fits(r.st)
        /\ Store(r.st)
        /\ Unlogged

SwapSets(set0, set1) ==
    /\ Store(swap_sets(Self, set0, set1).st)
    /\ Unlogged

SetFunction(failAt, writes) ==
    /\ Store(set_function(Self, failAt, writes).st)
    /\ Unlogged

SetFunctionSetSlot(failAt, writes) ==
    /\ Store(set_function_set_slot(Self, failAt, writes).st)
    /\ Unlogged

SetFunctionSlot(failAt, writes) ==
    /\ Store(set_function_slot(Self, failAt, writes).st)
    /\ Unlogged

AnyAddSet == \E setno \in Numbers : AddSet(setno)

AnySetPlayscreen == \E setno \in Numbers : SetPlayscreen(setno)

AnySwapSets == \E set0 \in Numbers, set1 \in Numbers : SwapSets(set0, set1)

AnySetFunction ==
    \E failAt \in 0 .. (MaxSets - 1), writes \in Contents :
        SetFunction(failAt, writes)

AnySetFunctionSetSlot ==
    \E failAt \in 0 .. (MaxSets - 1), writes \in Contents :
        SetFunctionSetSlot(failAt, writes)

AnySetFunctionSlot ==
    \E failAt \in 0 .. (MaxSets - 1), writes \in Contents :
        SetFunctionSlot(failAt, writes)

CoreNext ==
    \/ Reset
    \/ AnyAddSet
    \/ AnySetPlayscreen
    \/ AnySwapSets
    \/ AnySetFunction
    \/ AnySetFunctionSetSlot
    \/ AnySetFunctionSlot

CoreSpec == Init /\ [][CoreNext]_vars

(* ---------------------------------------------------------------------- *)
(* calculate_set on a newly constructed setmaster                          *)
(* ---------------------------------------------------------------------- *)

Rows == (0 - Margin) .. (m_rows - 1 + Margin)

Columns == (0 - Margin) .. (m_columns - 1 + Margin)

CalcInit ==
    /\ Constructed
    /\ arg_row \in Rows
    /\ arg_column \in Columns
    /\ calculated = unassigned

DoCalculateSet ==
    /\ call = "setmaster"
    /\ calculated' = calculate_set(arg_row, arg_column)
    /\ call' = "calculate_set"
    /\ UNCHANGED <<m_container, m_playscreen, m_playscreen_pointer, result,
                   arg_row, arg_column>>

CalcNext == DoCalculateSet

CalcSpec == CalcInit /\ [][CalcNext]_vars

(* ---------------------------------------------------------------------- *)
(* Type correctness                                                        *)
(* ---------------------------------------------------------------------- *)

TypeOK ==
    /\ \A k \in DOMAIN m_container :
          /\ m_container[k].is_playscreen \in BOOLEAN
          /\ m_container[k].content \in Contents
    /\ result \in BOOLEAN

(* ---------------------------------------------------------------------- *)
(* Properties                                                              *)
(* ---------------------------------------------------------------------- *)

\* The keys whose screenset has its is_playscreen flag set.
Active(c) == {k \in DOMAIN c : c[k].is_playscreen}

\* C1: in every reachable state exactly one stored screenset has its
\* is_playscreen flag set.
SingleActiveSet == Cardinality(Active(m_container)) = 1

\* C2: right after reset(), called in any reachable state, the container
\* holds exactly the keys 0 and LIMIT, the set under key 0 is marked, the
\* stored play-screen number is 0 and the dummy set under key LIMIT is not
\* marked.
ResetPostcondition ==
    LET after == reset(Self)
    IN  /\ DOMAIN after.container = {0, LIMIT}
        /\ after.container[0].is_playscreen
        /\ after.playscreen = 0
        /\ ~after.container[LIMIT].is_playscreen

\* A full container whose play-screen has moved off set 0 and whose key 0
\* holds an unmarked set: reset has all of it to undo.
ResetWitness ==
    /\ Cardinality(DOMAIN m_container) = MaxSets
    /\ m_playscreen # 0
    /\ ~m_container[0].is_playscreen
    /\ Active(reset(Self).container) = {0}

\* C3: the set stored under key LIMIT is never marked as the play-screen and
\* the stored play-screen number is never LIMIT.
DummyNeverPlayscreen ==
    /\ LIMIT \in DOMAIN m_container => ~m_container[LIMIT].is_playscreen
    /\ m_playscreen # LIMIT

\* C4: the container always holds key 0 and key LIMIT.
SentinelsPresent == {0, LIMIT} \subseteq DOMAIN m_container

\* Key 0 is still there after a swap moved its set away and the container
\* has been grown to its full size.
SentinelsWitness ==
    /\ m_container[0].set_number # 0
    /\ Cardinality(DOMAIN m_container) = MaxSets

\* Some stored screenset reports the given number as its own.
HasNumber(c, n) == \E k \in DOMAIN c : c[k].set_number = n

\* The program's own state, without the record of the last call.
state == <<m_container, m_playscreen, m_playscreen_pointer>>

\* C5: set_playscreen(n), for n in [0, LIMIT) that some stored set reports as
\* its number, returns true; afterwards the set find_by_value(n) locates is
\* marked, every other set that was marked is unmarked, and the stored
\* play-screen number is n.
SetPlayscreenExisting ==
    [][\A n \in Numbers :
        (call' = "set_playscreen" /\ n >= 0 /\ n < LIMIT
            /\ HasNumber(m_container, n) /\ DoSetPlayscreen(n)) =>
          LET it == find_by_value(m_container', n)
          IN  /\ result'
              /\ it # end
              /\ m_container'[KeyOf(it)].is_playscreen
              /\ \A k \in Active(m_container) \ it :
                    ~m_container'[k].is_playscreen
              /\ m_playscreen' = n]_vars

\* C6: set_playscreen(n), for n in [0, LIMIT) that no stored set has as key
\* or number, returns true and adds exactly the key n, holding a set numbered
\* n that is marked; every set that was marked before is unmarked; and
\* find_by_value(n) then locates the new set.
SetPlayscreenFresh ==
    [][\A n \in Numbers :
        (call' = "set_playscreen" /\ n >= 0 /\ n < LIMIT
            /\ n \notin DOMAIN m_container
            /\ ~HasNumber(m_container, n) /\ DoSetPlayscreen(n)) =>
          /\ result'
          /\ DOMAIN m_container' = DOMAIN m_container \cup {n}
          /\ m_container'[n].set_number = n
          /\ m_container'[n].is_playscreen
          /\ \A k \in Active(m_container) : ~m_container'[k].is_playscreen
          /\ find_by_value(m_container', n) = {n}]_vars

\* C7: set_playscreen(n) with n < 0 or n >= LIMIT returns false and leaves
\* the container, the stored play-screen number and the cached pointer as
\* they were.
SetPlayscreenOutOfRange ==
    \A n \in Numbers :
        (n < 0 \/ n >= LIMIT) =>
            LET r == set_playscreen(Self, n)
            IN  /\ ~r.ret
                /\ r.st = Self

\* A set is stored under a negative number, and set_playscreen of that
\* number still fails.
OutOfRangeWitness ==
    \E n \in DOMAIN m_container :
        /\ n < 0
        /\ ~set_playscreen(Self, n).ret

\* C8: the stored play-screen number is a key of the container and the
\* cached pointer is the address of the node stored under that key.
CachedPointerFresh ==
    /\ m_playscreen \in DOMAIN m_container
    /\ m_playscreen_pointer = AddressOf(m_playscreen)

\* set_playscreen has moved the play-screen, and the pointer, off set 0.
CachedPointerWitness ==
    /\ m_playscreen # 0
    /\ m_playscreen_pointer = AddressOf(m_playscreen)

\* C9: in every reachable state where sets numbered a and b both exist,
\* swap_sets(a, b) returns true, and a second swap_sets(a, b) returns true as
\* well and gives back the state the first one started from.
SwapInvolution ==
    \A a \in Numbers, b \in Numbers :
        (HasNumber(m_container, a) /\ HasNumber(m_container, b)) =>
          LET first == swap_sets(Self, a, b)
              again == swap_sets(first.st, a, b)
          IN  /\ first.ret
              /\ again.ret
              /\ again.st = Self

\* A swap has exchanged two sets that differ in content and in flag.
SwapInvolutionWitness ==
    /\ \E j \in DOMAIN m_container, k \in DOMAIN m_container :
          /\ m_container[j].set_number = k
          /\ m_container[k].set_number = j
          /\ m_container[j].content # m_container[k].content
          /\ m_container[j].is_playscreen # m_container[k].is_playscreen

\* C10: in every reachable state swap_sets(a, b) returns true exactly when a
\* set numbered a and a set numbered b both exist, and when it returns false
\* it has changed nothing.
SwapAllOrNothing ==
    \A a \in Numbers, b \in Numbers :
        LET both == HasNumber(m_container, a) /\ HasNumber(m_container, b)
            swapped == swap_sets(Self, a, b)
        IN  /\ swapped.ret <=> both
            /\ ~both => swapped.st = Self

\* Keys and numbers have diverged, and a swap of a number that is there with
\* one that is not fails.
SwapFailureWitness ==
    /\ \E k \in DOMAIN m_container : m_container[k].set_number # k
    /\ \E a \in Numbers, b \in Numbers :
          /\ HasNumber(m_container, a)
          /\ ~HasNumber(m_container, b)
          /\ ~swap_sets(Self, a, b).ret

\* The key of the stored set that reports n as its number.
KeyWithNumber(c, n) == CHOOSE k \in DOMAIN c : c[k].set_number = n

\* How many stored keys are smaller than k.
Position(c, k) == Cardinality({j \in DOMAIN c : j < k})

\* C11: for a # b, when key ka holds the set numbered a and key kb the set
\* numbered b, swap_sets(a, b) leaves under ka the content and flag that were
\* under kb with number b, under kb the content and flag that were under ka
\* with number a, and everything else as it was.
SwapEffect ==
    \A a \in Numbers, b \in Numbers :
        (a # b /\ HasNumber(m_container, a) /\ HasNumber(m_container, b)) =>
          LET ka == KeyWithNumber(m_container, a)
              kb == KeyWithNumber(m_container, b)
              swapped == swap_sets(Self, a, b)
              d == swapped.st.container
          IN  /\ swapped.ret
              /\ DOMAIN d = DOMAIN m_container
              /\ d[ka] = [set_number |-> b,
                          is_playscreen |-> m_container[kb].is_playscreen,
                          content |-> m_container[kb].content]
              /\ d[kb] = [set_number |-> a,
                          is_playscreen |-> m_container[ka].is_playscreen,
                          content |-> m_container[ka].content]
              /\ \A k \in DOMAIN d \ {ka, kb} : d[k] = m_container[k]
              /\ swapped.st.playscreen = m_playscreen
              /\ swapped.st.pointer = m_playscreen_pointer

\* A swap has carried a marked, written-to set to a key that is not its
\* number.
SwapEffectWitness ==
    /\ \E k \in DOMAIN m_container :
          /\ m_container[k].set_number # k
          /\ m_container[k].is_playscreen
          /\ m_container[k].content = 1

\* The three set_function overloads.
Overloads == {"sethandler", "sethandler, slothandler", "slothandler"}

Visit(overload, failAt, writes) ==
    CASE overload = "sethandler" -> set_function(Self, failAt, writes)
      [] overload = "sethandler, slothandler" ->
            set_function_set_slot(Self, failAt, writes)
      [] overload = "slothandler" -> set_function_slot(Self, failAt, writes)

UsableKeys(c) == {k \in DOMAIN c : usable(c[k])}

\* C12: each set_function overload visits usable sets only, in ascending key
\* order; when the k-th visit fails exactly the k lowest usable keys are
\* visited and the call returns false; when no visit fails and there are
\* N >= 1 usable sets all N are visited and the call returns true.
FailFastVisitation ==
    \A overload \in Overloads, failAt \in 0 .. (MaxSets - 1),
       writes \in Contents :
        LET r == Visit(overload, failAt, writes)
            usables == UsableKeys(m_container)
            N == Cardinality(usables)
            fails == failAt \in 1 .. N
            expected == IF fails THEN failAt ELSE N
            seen == r.visited
        IN  /\ Len(seen) = expected
            /\ \A i \in 1 .. Len(seen) :
                  /\ seen[i].key \in usables
                  /\ Cardinality({j \in usables : j < seen[i].key}) = i - 1
            /\ r.ret <=> (N >= 1 /\ ~fails)

\* Two usable sets differ in content, as a failed visit leaves them, and a
\* visit of this container that fails stops before the last usable set.
FailFastWitness ==
    /\ \E j \in UsableKeys(m_container), k \in UsableKeys(m_container) :
          /\ j < k
          /\ m_container[j].content # m_container[k].content
    /\ \E overload \in Overloads, failAt \in 0 .. (MaxSets - 1) :
          LET r == Visit(overload, failAt, 1)
          IN  /\ ~r.ret
              /\ Len(r.visited) >= 1
              /\ Len(r.visited) < Cardinality(UsableKeys(m_container))

\* C13: the i-th invocation (from 0) made by set_function(sethandler) is
\* handed index i, whatever the keys and numbers of the sets and however
\* many unusable sets were skipped before it.
VisitorIndex ==
    \A failAt \in 0 .. (MaxSets - 1), writes \in Contents :
        LET seen == set_function(Self, failAt, writes).visited
        IN  \A i \in 1 .. Len(seen) : seen[i].index = i - 1

\* The unusable set is stored under the lowest key, before every set a
\* visit of the full container goes through.
VisitorIndexWitness ==
    /\ Len(set_function(Self, MaxSets - 1, 1).visited) = MaxSets - 1
    /\ \E k \in DOMAIN m_container :
          /\ ~usable(m_container[k])
          /\ \A j \in DOMAIN m_container : k <= j
          /\ Cardinality(UsableKeys(m_container)) = MaxSets - 1

\* C14: add_set(n) adds key n with an unmarked, empty set numbered n when
\* key n is absent and changes nothing when key n is present; either way
\* every set already stored, the stored play-screen number and the cached
\* pointer stay as they were.
AddSetEffect ==
    \A n \in Numbers :
        LET added == add_set(Self, n)
            d == added.st.container
        IN  /\ DOMAIN d = DOMAIN m_container \cup {n}
            /\ n \notin DOMAIN m_container =>
                  d[n] = [set_number |-> n, is_playscreen |-> FALSE,
                          content |-> 0]
            /\ \A k \in DOMAIN m_container : d[k] = m_container[k]
            /\ added.st.playscreen = m_playscreen
            /\ added.st.pointer = m_playscreen_pointer

\* Sets have been added up to a full container, with the marked set stored
\* under a key that is not its number.
AddSetWitness ==
    /\ \E n \in DOMAIN m_container : add_set(Self, n).st = Self
    /\ Cardinality(DOMAIN m_container) = MaxSets
    /\ \E k \in DOMAIN m_container :
          /\ m_container[k].set_number # k
          /\ m_container[k].is_playscreen

\* C15: screenset_index(n) is the position, in ascending key order over
\* every stored set, of the set numbered n, and unassigned when there is
\* none; after swap_sets(a, b) the index of b is the position of the key
\* that held a.
ScreensetIndex ==
    /\ \A n \in Numbers :
          screenset_index(m_container, n) =
            IF HasNumber(m_container, n)
            THEN Position(m_container, KeyWithNumber(m_container, n))
            ELSE unassigned
    /\ \A a \in Numbers, b \in Numbers :
          (HasNumber(m_container, a) /\ HasNumber(m_container, b)) =>
            screenset_index(swap_sets(Self, a, b).st.container, b) =
              Position(m_container, KeyWithNumber(m_container, a))

\* After a swap two sets are indexed against the order of their numbers.
ScreensetIndexWitness ==
    /\ \E j \in DOMAIN m_container, k \in DOMAIN m_container :
          /\ m_container[j].set_number > m_container[k].set_number
          /\ screenset_index(m_container, m_container[j].set_number) <
                screenset_index(m_container, m_container[k].set_number)

\* C16: calculate_set(row, column) is rows * column + row inside the grid,
\* a number below rows * columns that no other grid position gives, and 0
\* outside the grid; the setmaster is left as constructed.
CalculateSet ==
    call = "calculate_set" =>
        LET inside == /\ 0 <= arg_row /\ arg_row < c_rows
                      /\ 0 <= arg_column /\ arg_column < c_columns
        IN  /\ inside =>
                  /\ calculated = c_rows * arg_column + arg_row
                  /\ calculated \in 0 .. (c_rows * c_columns - 1)
                  /\ \A r \in 0 .. (c_rows - 1), c \in 0 .. (c_columns - 1) :
                        calculate_set(r, c) = calculated =>
                          (r = arg_row /\ c = arg_column)
            /\ ~inside => calculated = 0
            /\ DOMAIN m_container = {0, LIMIT}
            /\ m_playscreen = 0
            /\ m_playscreen_pointer = AddressOf(0)

\* calculate_set has answered for the last position of the grid.
CalculateSetWitness ==
    /\ call = "calculate_set"
    /\ arg_row = c_rows - 1
    /\ arg_column = c_columns - 1
    /\ calculated = c_rows * c_columns - 1

\* C17: every stored key and every stored set's number lies in [0, LIMIT],
\* and LIMIT is the number of one set only.
NumbersInRange ==
    /\ \A k \in DOMAIN m_container :
          /\ k \in 0 .. LIMIT
          /\ m_container[k].set_number \in 0 .. LIMIT
    /\ Cardinality({k \in DOMAIN m_container :
                       m_container[k].set_number = LIMIT}) <= 1

\* C18: a call of add_set, swap_sets or set_playscreen never loses a key:
\* swap_sets keeps the key set as it is, the other two add at most one key.
KeysNeverLost ==
    LET keys == DOMAIN m_container
        grown(st) == /\ keys \subseteq DOMAIN st.container
                     /\ Cardinality(DOMAIN st.container \ keys) <= 1
    IN  /\ \A n \in Numbers :
              /\ grown(add_set(Self, n).st)
              /\ grown(set_playscreen(Self, n).st)
        /\ \A a \in Numbers, b \in Numbers :
              DOMAIN swap_sets(Self, a, b).st.container = keys

\* The container has been filled, by a set the play-screen has moved to,
\* and a further add_set would insert one more.
KeysNeverLostWitness ==
    /\ \E n \in Numbers :
          Cardinality(DOMAIN add_set(Self, n).st.container) > MaxSets
    /\ Cardinality(DOMAIN m_container) = MaxSets
    /\ m_playscreen \notin {0, LIMIT}

\* C19: the set stored under the stored play-screen number is marked as the
\* play-screen.
StoredPlayscreenMarked ==
    /\ m_playscreen \in DOMAIN m_container
    /\ m_container[m_playscreen].is_playscreen

\* C20: no two stored sets report the same number, the numbers reported are
\* exactly the keys, and find_by_value(n) finds a set exactly when n is a
\* key.
NumbersPermuteKeys ==
    /\ \A j \in DOMAIN m_container, k \in DOMAIN m_container :
          j # k => m_container[j].set_number # m_container[k].set_number
    /\ {m_container[k].set_number : k \in DOMAIN m_container} =
          DOMAIN m_container
    /\ \A n \in Numbers :
          find_by_value(m_container, n) # end <=> n \in DOMAIN m_container

\* Swaps have left no set of a full container under its own number.
NumbersPermuteWitness ==
    /\ Cardinality(DOMAIN m_container) = MaxSets
    /\ \A k \in DOMAIN m_container : m_container[k].set_number # k

\* C21: in every reachable state set_playscreen(n), for n in [0, LIMIT),
\* returns true, never executes "m_playscreen = 0", and calls itself once
\* more exactly when it had to create the set under key n, never twice.
FallbackUnreachable ==
    \A n \in Numbers :
        (n >= 0 /\ n < LIMIT) =>
            LET r == set_playscreen(Self, n)
            IN  /\ r.ret
                /\ ~r.fallback
                /\ r.calls = IF n \in DOMAIN m_container THEN 1 ELSE 2
                /\ r.st.playscreen = n

\* Keys and numbers have diverged, the set under the stored play-screen
\* number is unmarked, and set_playscreen of a number in range has a set to
\* create.
FallbackWitness ==
    /\ ~m_container[m_playscreen].is_playscreen
    /\ \E n \in Numbers :
          /\ n >= 0 /\ n < LIMIT
          /\ n \notin DOMAIN m_container
          /\ set_playscreen(Self, n).calls > 1

====
